---- MODULE Spec2Model ----
(***************************************************************************)
(* A state-machine model of the Docling RAG system: the orchestrator       *)
(* DoclingRAGSystem (main.py), the index VectorStore (vector_store.py),    *)
(* the answerer RAGPipeline (rag_pipeline.py), the batch parser            *)
(* (document_processor.py), the chunker wrapper (chunking_strategy.py)     *)
(* and the FastAPI request surface (api.py).                               *)
(*                                                                         *)
(* The external collaborators (Docling's converter and chunker, Chroma,    *)
(* the embedding model, the Groq generation service) are modelled by what  *)
(* the code can observe of them: a call either returns or raises, and a    *)
(* store write that raises may have written a prefix of its batch.         *)
(* Texts are sequences of character codes; relevance scores are integers   *)
(* in hundredths (0..100 stands for 0.00..1.00).                           *)
(***************************************************************************)
EXTENDS Integers, Sequences, FiniteSets, TLC

\* ------------------------------------------------------------------ bounds

\* Most entries the calls of one run may append to the persisted collection.
MaxGrow == 3

\* Longest list of file paths a caller hands to ingest_documents.
MaxBatch == 2

\* ------------------------------------------------------- program constants

\* k of similarity_search_with_relevance_scores(question, k=10)
RetrieveK == 10

\* k of vector_store.as_retriever(k=10), the retriever inside rag_chain
RetrieverK == 10

\* doc.page_content[:300] + "..." if len(doc.page_content) > 300
PreviewLen == 300

\* result["sources"][:5] in query_documents
ApiSources == 5

\* QueryRequest.top_k: Optional[int] = 10
DefaultTopK == 10

\* CHUNK_SIZE = int(os.getenv("CHUNK_SIZE", "512"))
CHUNK_SIZE == 512

\* CHUNK_OVERLAP = int(os.getenv("CHUNK_OVERLAP", "128"))
CHUNK_OVERLAP == 128

\* "..." as character codes
Ellipsis == <<46, 46, 46>>

\* the allow-list of ingest_documents, get_status, list_documents, upload_document
supported_extensions ==
  << ".pdf", ".docx", ".xlsx", ".pptx", ".ppt", ".md", ".html", ".htm", ".csv",
     ".png", ".jpg", ".jpeg", ".tiff", ".tif", ".bmp", ".webp" >>

\* ------------------------------------------------------------- the inputs

\* The files of a run: one that parses and one corrupt. "b.md" was ingested
\* by earlier runs, and "n.txt" is a name whose suffix is not allow-listed.
Files == {"a.pdf", "bad.pdf"}

\* Path(name).suffix.lower()
Suffix(f) ==
  CASE f = "a.pdf" -> ".pdf"
    [] f = "b.md" -> ".md"
    [] f = "bad.pdf" -> ".pdf"
    [] f = "n.txt" -> ".txt"

Range(s) == {s[i] : i \in DOMAIN s}

Allowed(f) == Suffix(f) \in Range(supported_extensions)

\* position of an extension in supported_extensions
ExtIndex(e) == CHOOSE i \in DOMAIN supported_extensions : supported_extensions[i] = e

\* converter.convert(file_path) raises on these (corrupt or unsupported input)
Corrupt(f) == f \in {"bad.pdf", "n.txt"}

\* a text of n characters
MkText(seed, n) == [i \in 1..n |-> 97 + ((seed + i) % 5)]

\* The chunks HierarchicalChunker yields for each parsed document, by name.
ChunksOf(f) ==
  CASE f = "a.pdf" -> <<"c1", "c2">>
    [] f = "b.md" -> <<"c3">>
    [] OTHER -> <<>>

\* chunk.text: one short text, one longer than the preview, one exactly as long
ShortText == MkText(1, 2)
LongText == MkText(2, PreviewLen + 1)
EdgeText == MkText(3, PreviewLen)

ChunkText(c) ==
  CASE c = "c1" -> ShortText
    [] c = "c2" -> LongText
    [] c = "c3" -> EdgeText

Questions == {"q1", "q2"}

\* The relevance the store reports for a stored chunk and a question, in
\* hundredths; "q2" scores two different chunks alike.
Score(q, c) ==
  CASE q = "q1" /\ c = "c1" -> 90
    [] q = "q1" /\ c = "c2" -> 40
    [] q = "q1" /\ c = "c3" -> 65
    [] q = "q2" /\ c = "c1" -> 10
    [] q = "q2" /\ c = "c2" -> 80
    [] q = "q2" /\ c = "c3" -> 80

\* The answers the generation service may give: a short one and one longer
\* than the preview length.
ShortAnswer == MkText(0, 4)
LongAnswer == MkText(4, PreviewLen + 5)
Answers == {ShortAnswer, LongAnswer}

\* The collection a run may find persisted by earlier runs: none, or the
\* nine entries of three ingests of "a.pdf" and "b.md".
Prior == <<"c1", "c2", "c3", "c1", "c2", "c3", "c1", "c2", "c3">>

\* Lists of at most MaxBatch file paths.
Batches == UNION {[1..n -> Files] : n \in 0..MaxBatch}

\* How a store write of n documents may end: all written and a return, or an
\* exception after a prefix was written.
WriteOutcomes(n) ==
  {[ok |-> TRUE, written |-> n]} \cup {[ok |-> FALSE, written |-> j] : j \in 0..(n - 1)}
  \cup {[ok |-> FALSE, written |-> 0]}

\* ------------------------------------------------------------------ state

VARIABLES
  mode,          \* the program that runs: "script" (main.py, examples) | "server" (api.py)
  apiKey,        \* Config.GROQ_API_KEY is set
  docsExists,    \* the folder "docs" exists
  docs,          \* the files in it
  collExists,    \* the named collection exists in the persisted store
  collection,    \* its entries, in insertion order
  rag_system,    \* the orchestrator instance: "none" | "ready"
  components,    \* the components the last DoclingRAGSystem() call created
  validated,     \* the Config.validate() calls the last DoclingRAGSystem() call made
  vectorstore,   \* VectorStore.vectorstore: "none" | "open"
  rag_pipeline,  \* DoclingRAGSystem.rag_pipeline: "none" | "built"
  pipelines,     \* the RAGPipeline instances constructed so far
  base,          \* the number of entries the run found persisted
  expected,      \* base plus the chunk counts of the ingest calls so far; -1 once one raised
  call,          \* the last call and how it ended
  ing,           \* what the last ingest_documents did
  qry,           \* what the last query did
  resp,          \* the response the last query call returned
  chunker,       \* a ChunkingStrategy at work on a list of documents
  threads,       \* the callers inside ingest_documents, each with its position
  direct         \* the last call made on the VectorStore itself

program == << mode, apiKey, docsExists, docs, collExists, collection, rag_system, components, validated,
           vectorstore, rag_pipeline, pipelines, base, expected, call, ing, qry, resp >>

\* the orchestrator and its surroundings, without the vector store
around_store == << mode, apiKey, docsExists, docs, rag_system, components, validated,
                   rag_pipeline, pipelines, base, expected, call, ing, qry, resp >>

vars == << program, chunker, threads, direct >>

\* ------------------------------------------------------------ ingestion

\* file_paths=None (a value that is no list of Files)
None == <<"None">>

\* process_document: file_path.stat() and converter.convert(file_path) return
process_document_ok(f, present) == f \in present /\ ~Corrupt(f)

\* process_documents: the loop has no handler, so the first file that raises
\* ends it and the documents parsed before it are lost with the frame.
RECURSIVE process_documents(_, _)
process_documents(file_paths, present) ==
  IF file_paths = <<>> THEN [raised |-> FALSE, documents |-> <<>>, failed |-> ""]
  ELSE IF ~process_document_ok(Head(file_paths), present)
       THEN [raised |-> TRUE, documents |-> <<>>, failed |-> Head(file_paths)]
       ELSE LET r == process_documents(Tail(file_paths), present)
            IN  [raised |-> r.raised,
                 documents |-> IF r.raised THEN <<>> ELSE <<Head(file_paths)>> \o r.documents,
                 failed |-> r.failed]

\* ChunkingStrategy.__init__(chunk_size, chunk_overlap): the chunker is made
\* with max_tokens=chunk_size; chunk_overlap is not passed on or kept.
ChunkingStrategy(chunk_size, chunk_overlap) == [max_tokens |-> chunk_size]

\* the strategy DoclingRAGSystem.__init__ makes from the configuration
chunking_strategy == ChunkingStrategy(CHUNK_SIZE, CHUNK_OVERLAP)

\* chunk_document: one chunk_data per chunk self.chunker.chunk(document)
\* yields, in its order, with the chunk's text as it is
chunk_document(strategy, document) == ChunksOf(document)

\* chunk_documents: the chunks of each document, in document order
RECURSIVE chunk_documents(_)
chunk_documents(documents) ==
  IF documents = <<>> THEN <<>>
  ELSE chunk_document(chunking_strategy, Head(documents))
         \o chunk_documents(Tail(documents))

\* docs_folder.glob(f"*{ext}") for ext in supported_extensions: the files with an
\* allow-listed suffix, by extension in list order; the order of the files of
\* one extension is the file system's.
Discoveries(present) ==
  LET S == {f \in present : Allowed(f)}
  IN  {s \in [1..Cardinality(S) -> S] :
         /\ \A i, j \in DOMAIN s : i # j => s[i] # s[j]
         /\ \A i, j \in DOMAIN s :
              i < j => ExtIndex(Suffix(s[i])) <= ExtIndex(Suffix(s[j]))}

\* The index as the orchestrator holds it: the handle, and the persisted
\* collection behind it.
Store == [vs |-> vectorstore, ex |-> collExists, coll |-> collection]

\* A variant in which a write replaces what the collection held.
Written_over(coll, chunks, out) == SubSeq(chunks, 1, out.written)

\* A variant of as_retriever that loads on every call.
as_retriever_loading_again(s, loadOk) ==
  [raised |-> ~loadOk, s |-> IF loadOk THEN [s EXCEPT !.vs = "open", !.ex = TRUE] ELSE s,
   loaded |-> TRUE]

\* Chroma's write of a batch: the documents written before it returned or raised
Written(coll, chunks, out) == coll \o SubSeq(chunks, 1, out.written)

\* load_vectorstore: self.vectorstore = Chroma(...), which opens the named
\* collection and creates it when it is not there; nothing is assigned when
\* the constructor raises.
load_vectorstore(s, ok) ==
  IF ok THEN [raised |-> FALSE, s |-> [s EXCEPT !.vs = "open", !.ex = TRUE]]
        ELSE [raised |-> TRUE, s |-> s]

\* add_documents: an implicit load when there is no handle, then
\* self.vectorstore.add_documents(documents)
add_documents(s, chunks, loadOk, out) ==
  LET l == IF s.vs = "none" THEN load_vectorstore(s, loadOk)
                            ELSE [raised |-> FALSE, s |-> s]
  IN  IF l.raised THEN [raised |-> TRUE, s |-> l.s, loaded |-> TRUE]
      ELSE [raised |-> ~out.ok,
            s |-> [l.s EXCEPT !.coll = Written(l.s.coll, chunks, out)],
            loaded |-> s.vs = "none"]

\* create_vectorstore: self.vectorstore = Chroma.from_documents(...), which
\* opens or creates the named collection and writes the documents to it; the
\* handle is assigned only when it returns.
create_vectorstore(s, chunks, out) ==
  [raised |-> ~out.ok,
   s |-> [vs |-> IF out.ok THEN "open" ELSE s.vs,
          ex |-> s.ex \/ out.ok \/ out.written > 0,
          coll |-> Written(s.coll, chunks, out)]]

\* main.py 90-97: try: load_vectorstore(); add_documents(chunks)
\*                except: create_vectorstore(chunks)
StoreStage(s, chunks, loadOk, addOut, buildOut) ==
  LET l == load_vectorstore(s, loadOk)
      a == IF l.raised THEN [raised |-> TRUE, s |-> l.s, loaded |-> FALSE]
           ELSE add_documents(l.s, chunks, loadOk, addOut)
      b == create_vectorstore(a.s, chunks, buildOut)
  IN  IF ~a.raised
      THEN [raised |-> FALSE, s |-> a.s, loaded |-> TRUE, added |-> TRUE, built |-> FALSE,
            built_open |-> FALSE, build_grew |-> 0]
      ELSE [raised |-> b.raised, s |-> b.s, loaded |-> ~l.raised,
            added |-> ~l.raised, built |-> TRUE,
            built_open |-> a.s.vs = "open",
            build_grew |-> Len(b.s.coll) - Len(a.s.coll)]

\* What an ingest_documents call did; IdleIng when the last call was none.
\*   note: the message printed on an early return or at the end;
\*   failed: the file whose parse raised; good: the chunks of the files of the
\*   batch that parse; nchunks: the chunks handed to the index; reached: the
\*   call got to the index; existed: the collection existed before the call;
\*   added, built: add_documents, create_vectorstore were invoked; grew: the
\*   entries the call appended; built_open: create_vectorstore was invoked on an
\*   open handle; build_grew: the entries create_vectorstore appended.
IdleIng ==
  [ran |-> FALSE, discover |-> FALSE, note |-> "", failed |-> "", good |-> 0,
   nchunks |-> 0, reached |-> FALSE, existed |-> FALSE, added |-> FALSE,
   built |-> FALSE, grew |-> 0, built_open |-> FALSE, build_grew |-> 0]

\* the chunks of the files of a batch that parse
GoodChunks(paths, present) ==
  LET ok(f) == process_document_ok(f, present)
  IN  chunk_documents(SelectSeq(paths, ok))

\* ingest_documents(file_paths): discovery when file_paths is None, parsing,
\* chunking, and the write to the index. `found` is what discovery globs, `run`
\* what the store does.
ingest_documents(file_paths, found, run, present) ==
  LET discover == file_paths = None
      paths == IF discover THEN found ELSE file_paths
      base0 == [IdleIng EXCEPT !.ran = TRUE, !.discover = discover,
                               !.existed = collExists]
  IN  IF discover /\ ~docsExists
      THEN [raised |-> FALSE, err |-> "", s |-> Store,
            ing |-> [base0 EXCEPT !.note = "docs folder not found"]]
      ELSE IF discover /\ found = <<>>
      THEN [raised |-> FALSE, err |-> "", s |-> Store,
            ing |-> [base0 EXCEPT !.note = "no supported documents found"]]
      ELSE
        LET p == process_documents(paths, present)
            chunks == chunk_documents(p.documents)
            st == StoreStage(Store, chunks, run.loadOk, run.addOut, run.buildOut)
            parsed == [base0 EXCEPT !.good = Len(GoodChunks(paths, present))]
        IN  IF p.raised
            THEN [raised |-> TRUE, err |-> "parse", s |-> Store,
                  ing |-> [parsed EXCEPT !.failed = p.failed]]
            ELSE [raised |-> st.raised,
                  err |-> IF st.raised THEN "store" ELSE "",
                  s |-> st.s,
                  ing |-> [parsed EXCEPT !.nchunks = Len(chunks),
                                         !.reached = TRUE,
                                         !.added = st.added, !.built = st.built,
                                         !.built_open = st.built_open,
                                         !.build_grew = st.build_grew,
                                         !.grew = Len(st.s.coll) - Len(collection),
                                         !.note = IF st.raised THEN ""
                                                  ELSE IF st.built THEN "created new vector store"
                                                  ELSE "added to existing vector store"]]

\* What the store may do in one ingest_documents call that hands it n chunks:
\* whether Chroma(...) returns, and how the writes of add_documents and of
\* create_vectorstore end. Only the calls the code reaches are told apart.
StoreRuns(n) ==
  {[loadOk |-> TRUE, addOut |-> [ok |-> TRUE, written |-> n],
    buildOut |-> [ok |-> TRUE, written |-> n]]}
  \cup {[loadOk |-> FALSE, addOut |-> [ok |-> FALSE, written |-> 0], buildOut |-> b] :
          b \in WriteOutcomes(n)}
  \cup {[loadOk |-> TRUE, addOut |-> a, buildOut |-> b] :
          a \in {w \in WriteOutcomes(n) : ~w.ok}, b \in WriteOutcomes(n)}

\* the store is not called
NoStoreRun ==
  [loadOk |-> TRUE, addOut |-> [ok |-> TRUE, written |-> 0],
   buildOut |-> [ok |-> TRUE, written |-> 0]]

\* what discovery may find when file_paths is None
Founds(file_paths, present) ==
  IF file_paths = None THEN Discoveries(present) ELSE {<<>>}

\* the store runs that differ for one ingest_documents call: those for its
\* chunks when the call gets to the index, none when it does not
RunsFor(file_paths, found, present) ==
  LET p == process_documents(IF file_paths = None THEN found ELSE file_paths, present)
      reaches == ~p.raised /\ ~(file_paths = None /\ (~docsExists \/ found = <<>>))
  IN  IF reaches THEN StoreRuns(Len(chunk_documents(p.documents))) ELSE {NoStoreRun}

\* the running sum of chunk counts over the ingest calls, while all returned
Expected(r) ==
  IF r.raised \/ expected = -1 THEN -1 ELSE expected + r.ing.nchunks

\* the last call: who was called, how it ended ("ok" | "raised"), the kind of
\* exception, and the HTTP status (0 for a call on the orchestrator)
Call(op, outcome, err, http) == [op |-> op, outcome |-> outcome, err |-> err, http |-> http]

\* ---------------------------------------------------------------- query

Min(a, b) == IF a < b THEN a ELSE b

\* an entry put into a list ordered by descending score, behind the entries
\* that score as high
InsertByScore(sorted, e) ==
  LET k == Cardinality({i \in DOMAIN sorted : sorted[i].score >= e.score})
  IN  SubSeq(sorted, 1, k) \o <<e>> \o SubSeq(sorted, k + 1, Len(sorted))

\* the entries of the collection with their scores for the question, most
\* relevant first, entries of equal relevance in insertion order
RECURSIVE Ranked(_, _)
Ranked(coll, question) ==
  IF coll = <<>> THEN <<>>
  ELSE LET last == coll[Len(coll)]
       IN  InsertByScore(Ranked(SubSeq(coll, 1, Len(coll) - 1), question),
                         [doc |-> last, score |-> Score(question, last)])

\* Chroma's nearest-neighbour search over the collection: the k entries most
\* relevant to the question, most relevant first, each with its relevance score.
similarity_search_with_relevance_scores(coll, question, k) ==
  SubSeq(Ranked(coll, question), 1, Min(k, Len(coll)))

\* self.retriever inside rag_chain: vectorstore.as_retriever(k=10), the documents
\* of the same search without their scores
retriever(coll, question) ==
  LET found == similarity_search_with_relevance_scores(coll, question, RetrieverK)
  IN  [r \in DOMAIN found |-> found[r].doc]

RECURSIVE SumSeq(_)
SumSeq(s) == IF s = <<>> THEN 0 ELSE Head(s) + SumSeq(Tail(s))

\* A variant that divides by the k of the search instead of the number of
\* scores returned.
avg_relevance_over_k(similarity_scores) ==
  [num |-> SumSeq(similarity_scores), den |-> RetrieveK]

\* avg_relevance = sum(similarity_scores) / len(similarity_scores)
\*                 if similarity_scores else 0
\* as the fraction num/den
avg_relevance(similarity_scores) ==
  IF similarity_scores # <<>>
  THEN [num |-> SumSeq(similarity_scores), den |-> Len(similarity_scores)]
  ELSE [num |-> 0, den |-> 1]

\* A variant that also marks a text of exactly the preview length.
preview_from_length(page_content) ==
  IF Len(page_content) >= PreviewLen
  THEN SubSeq(page_content, 1, PreviewLen) \o Ellipsis
  ELSE page_content

\* doc.page_content[:300] + "..." if len(doc.page_content) > 300 else doc.page_content
preview(page_content) ==
  IF Len(page_content) > PreviewLen
  THEN SubSeq(page_content, 1, PreviewLen) \o Ellipsis
  ELSE page_content

\* A variant that lists the results last to first.
sources_last_first(source_docs_with_scores) ==
  LET n == Len(source_docs_with_scores)
  IN  [i \in DOMAIN source_docs_with_scores |->
         [source_number |-> i,
          text |-> preview(ChunkText(source_docs_with_scores[n + 1 - i].doc)),
          metadata |-> source_docs_with_scores[n + 1 - i].doc,
          relevance_score |-> source_docs_with_scores[n + 1 - i].score]]

\* for i, (doc, score) in enumerate(source_docs_with_scores, 1): source_info
sources_of(source_docs_with_scores) ==
  [i \in DOMAIN source_docs_with_scores |->
     [source_number |-> i,
      text |-> preview(ChunkText(source_docs_with_scores[i].doc)),
      metadata |-> source_docs_with_scores[i].doc,
      relevance_score |-> source_docs_with_scores[i].score]]

\* response = {"question", "answer", "sources", "metrics"} of RAGPipeline.query
response_of(question, answer, source_docs_with_scores) ==
  LET source_docs == [i \in DOMAIN source_docs_with_scores |-> source_docs_with_scores[i].doc]
      similarity_scores ==
        [i \in DOMAIN source_docs_with_scores |-> source_docs_with_scores[i].score]
  IN  [given |-> TRUE,
       question |-> question,
       answer |-> answer,
       sources |-> sources_of(source_docs_with_scores),
       metrics |-> [retrieved_chunks |-> Len(source_docs),
                    average_relevance |-> avg_relevance(similarity_scores),
                    answer_length |-> Len(answer)]]

NoResp ==
  [given |-> FALSE, question |-> "", answer |-> <<>>, sources |-> <<>>,
   metrics |-> [retrieved_chunks |-> 0, average_relevance |-> [num |-> 0, den |-> 1],
                answer_length |-> 0]]

\* QueryResponse(question=..., answer=..., sources=result["sources"][:5], metrics=...)
api_response_of(result) ==
  [result EXCEPT !.sources = SubSeq(result.sources, 1, Min(ApiSources, Len(result.sources)))]

\* What a query call did; IdleQry when the last call was none.
\*   top_k: the k of the request (DefaultTopK when the caller gave none);
\*   searched: the scored search returned; retrieved: what it returned;
\*   context: the documents the chain's retriever handed to _format_docs;
\*   prompt_context: the {context} of the prompt, what _format_docs made of them;
\*   requests: the generation requests issued; answer: what the service gave;
\*   made: the call constructed the RAGPipeline; loaded: as_retriever loaded
\*   the index.
IdleQry ==
  [ran |-> FALSE, question |-> "", top_k |-> 0, searched |-> FALSE,
   retrieved |-> <<>>, context |-> <<>>, prompt_context |-> <<>>, requests |-> 0,
   answer |-> <<>>, made |-> FALSE, loaded |-> FALSE]

\* What the collaborators do in one query: whether the Chroma(...) of an
\* implicit load returns, whether the scored search and the chain's retrieval
\* return, and the answer of the generation service ("raises" when it fails).
QueryRuns ==
  {[loadOk |-> FALSE, searchOk |-> TRUE, chainOk |-> TRUE, gen |-> <<>>],
   [loadOk |-> TRUE, searchOk |-> FALSE, chainOk |-> TRUE, gen |-> <<>>],
   [loadOk |-> TRUE, searchOk |-> TRUE, chainOk |-> FALSE, gen |-> <<>>],
   [loadOk |-> TRUE, searchOk |-> TRUE, chainOk |-> TRUE, gen |-> <<>>]}
  \cup {[loadOk |-> TRUE, searchOk |-> TRUE, chainOk |-> TRUE, gen |-> a] : a \in Answers}

\* the generation service raised (an empty completion stands for it)
GenRaises(run) == run.gen = <<>>

\* VectorStore.as_retriever(k): if not self.vectorstore: self.load_vectorstore();
\* `loaded` tells that it did load
as_retriever(s, loadOk) ==
  IF s.vs = "none"
  THEN LET l == load_vectorstore(s, loadOk)
       IN  [raised |-> l.raised, s |-> l.s, loaded |-> TRUE]
  ELSE [raised |-> FALSE, s |-> s, loaded |-> FALSE]

\* A variant that makes a new RAGPipeline on every call.
initialize_rag_every_call(s, pipeline, loadOk) ==
  LET l == as_retriever(s, loadOk)
  IN  [raised |-> l.raised, s |-> l.s, loaded |-> l.loaded,
       made |-> ~l.raised,
       pipeline |-> IF l.raised THEN pipeline ELSE "built"]

\* initialize_rag: `if not self.rag_pipeline: self.rag_pipeline = RAGPipeline(...)`;
\* RAGPipeline.__init__ calls vector_store.as_retriever(k=10), and the attribute
\* is assigned only when the constructor returns. `made` tells that an
\* instance was constructed.
initialize_rag(s, pipeline, loadOk) ==
  IF pipeline # "none"
  THEN [raised |-> FALSE, s |-> s, loaded |-> FALSE, made |-> FALSE, pipeline |-> pipeline]
  ELSE LET l == as_retriever(s, loadOk)
       IN  [raised |-> l.raised, s |-> l.s, loaded |-> l.loaded,
            made |-> ~l.raised,
            pipeline |-> IF l.raised THEN "none" ELSE "built"]

\* "\n\n" as character codes
BlankLine == <<10, 10>>

\* A variant that puts a single newline between the texts.
format_docs_one_newline(context_docs) ==
  LET RECURSIVE join(_)
      join(ds) == IF ds = <<>> THEN <<>>
                  ELSE IF Len(ds) = 1 THEN ChunkText(ds[1])
                  ELSE ChunkText(ds[1]) \o <<10>> \o join(Tail(ds))
  IN  join(context_docs)

\* _format_docs: "\n\n".join(doc.page_content for doc in docs)
RECURSIVE format_docs(_)
format_docs(context_docs) ==
  IF context_docs = <<>> THEN <<>>
  ELSE IF Len(context_docs) = 1 THEN ChunkText(context_docs[1])
  ELSE ChunkText(context_docs[1]) \o BlankLine \o format_docs(Tail(context_docs))

\* A variant that asks the generation service again when its request raised.
pipeline_query_asking_twice(question, top_k, run, source_docs_with_scores, context_docs) ==
  LET q0 == [IdleQry EXCEPT !.ran = TRUE, !.question = question, !.top_k = top_k]
      q1 == [q0 EXCEPT !.searched = TRUE, !.retrieved = source_docs_with_scores]
      q2 == [q1 EXCEPT !.context = context_docs,
                       !.prompt_context = format_docs(context_docs), !.requests = 1]
  IN  IF ~run.searchOk THEN [raised |-> TRUE, err |-> "store", qry |-> q0, resp |-> NoResp]
      ELSE IF ~run.chainOk THEN [raised |-> TRUE, err |-> "store", qry |-> q1, resp |-> NoResp]
      ELSE IF GenRaises(run)
      THEN [raised |-> TRUE, err |-> "generation",
            qry |-> [q2 EXCEPT !.requests = 2], resp |-> NoResp]
      ELSE [raised |-> FALSE, err |-> "",
            qry |-> [q2 EXCEPT !.answer = run.gen],
            resp |-> response_of(question, run.gen, source_docs_with_scores)]

\* RAGPipeline.query(question): the scored search, the metrics, the chain
\* (retrieve, format, prompt, generate: one rag_chain.invoke), the response.
\* source_docs_with_scores is what the scored search returns, context_docs
\* what the chain's retriever returns.
pipeline_query(question, top_k, run, source_docs_with_scores, context_docs) ==
  LET q0 == [IdleQry EXCEPT !.ran = TRUE, !.question = question, !.top_k = top_k]
      q1 == [q0 EXCEPT !.searched = TRUE, !.retrieved = source_docs_with_scores]
      q2 == [q1 EXCEPT !.context = context_docs,
                       !.prompt_context = format_docs(context_docs), !.requests = 1]
  IN  IF ~run.searchOk THEN [raised |-> TRUE, err |-> "store", qry |-> q0, resp |-> NoResp]
      ELSE IF ~run.chainOk THEN [raised |-> TRUE, err |-> "store", qry |-> q1, resp |-> NoResp]
      ELSE IF GenRaises(run)
      THEN [raised |-> TRUE, err |-> "generation", qry |-> q2, resp |-> NoResp]
      ELSE [raised |-> FALSE, err |-> "",
            qry |-> [q2 EXCEPT !.answer = run.gen],
            resp |-> response_of(question, run.gen, source_docs_with_scores)]

\* DoclingRAGSystem.query(question): initialize_rag() when there is no pipeline,
\* then rag_pipeline.query(question); i is what initialize_rag did
query(question, top_k, run, i, source_docs_with_scores, context_docs) ==
  IF i.raised
  THEN [raised |-> TRUE, err |-> "store",
        qry |-> [IdleQry EXCEPT !.ran = TRUE, !.question = question, !.top_k = top_k,
                                !.loaded = i.loaded],
        resp |-> NoResp]
  ELSE LET r == pipeline_query(question, top_k, run, source_docs_with_scores, context_docs)
       IN  [r EXCEPT !.qry.made = i.made, !.qry.loaded = i.loaded]

\* the runs that differ for the state: a load happens only without a pipeline
\* and without a handle
QueryInputs ==
  {run \in QueryRuns : run.loadOk \/ (rag_pipeline = "none" /\ vectorstore = "none")}

\* One call of DoclingRAGSystem.query from `op`: the orchestrator's state after
\* it, what it did, and what the caller gets (the request surface keeps the
\* first five sources of the result).
QueryCall(op, question, top_k, okHttp, errHttp) ==
  \E run \in QueryInputs :
  \E i \in {initialize_rag(Store, rag_pipeline, run.loadOk)} :
  \E found \in {similarity_search_with_relevance_scores(i.s.coll, question, RetrieveK)} :
  \E context_docs \in {retriever(i.s.coll, question)} :
  \E r \in {query(question, top_k, run, i, found, context_docs)} :
    /\ vectorstore' = i.s.vs
    /\ collExists' = i.s.ex
    /\ collection' = i.s.coll
    /\ rag_pipeline' = i.pipeline
    /\ pipelines' = IF i.made THEN pipelines + 1 ELSE pipelines
    /\ qry' = r.qry
    /\ resp' = IF r.raised THEN NoResp
               ELSE IF op = "api_query" THEN api_response_of(r.resp)
               ELSE r.resp
    /\ call' = IF r.raised THEN Call(op, "raised", r.err, errHttp)
                           ELSE Call(op, "ok", "", okHttp)

\* One call of DoclingRAGSystem.ingest_documents from `op`, with the files
\* `present` in docs.
IngestCall(op, file_paths, present, okHttp, errHttp) ==
  \E found \in Founds(file_paths, present) :
  \E run \in RunsFor(file_paths, found, present) :
  \E r \in {ingest_documents(file_paths, found, run, present)} :
    /\ Len(r.s.coll) <= base + MaxGrow
    /\ vectorstore' = r.s.vs
    /\ collExists' = r.s.ex
    /\ collection' = r.s.coll
    /\ expected' = Expected(r)
    /\ ing' = r.ing
    /\ call' = IF r.raised THEN Call(op, "raised", r.err, errHttp)
                           ELSE Call(op, "ok", "", okHttp)

\* ------------------------------------------------------------ the calls

\* the components DoclingRAGSystem.__init__ creates
Components == {"document_processor", "chunking_strategy", "vector_store"}

\* Config.validate(): ValueError when GROQ_API_KEY is empty
validate(key) == [raised |-> ~key]

\* A variant that creates the components before it validates.
construct_then_validate(key) ==
  [raised |-> validate(key).raised,
   system |-> IF validate(key).raised THEN "none" ELSE "ready",
   components |-> Components,
   validated |-> 1]

\* DoclingRAGSystem.__init__: Config.validate() first, then the processor, the
\* chunker and the index handle; rag_pipeline = None. Nothing is created when
\* validate raises.
construct(key) ==
  IF validate(key).raised
  THEN [raised |-> TRUE, system |-> "none", components |-> {}, validated |-> 1]
  ELSE [raised |-> FALSE, system |-> "ready", components |-> Components, validated |-> 1]

\* rag = DoclingRAGSystem() in a script (main.py 151-156, the examples)
Construct ==
  /\ mode = "script"
  /\ rag_system = "none"
  /\ \E c \in {construct(apiKey)} :
       /\ rag_system' = c.system
       /\ components' = c.components
       /\ validated' = c.validated
       /\ call' = IF c.raised THEN Call("construct", "raised", "config", 0)
                              ELSE Call("construct", "ok", "", 0)
  /\ ing' = IdleIng /\ qry' = IdleQry /\ resp' = NoResp
  /\ UNCHANGED << chunker, threads, direct, mode, apiKey, docsExists, docs, collExists, collection,
                  vectorstore, rag_pipeline, pipelines, base, expected >>

\* rag_system.ingest_documents(file_paths) called on the orchestrator
Ingest ==
  /\ mode = "script"
  /\ rag_system = "ready"
  /\ \E file_paths \in Batches \cup {None} :
       IngestCall("ingest", file_paths, docs, 0, 0)
  /\ qry' = IdleQry /\ resp' = NoResp
  /\ UNCHANGED << chunker, threads, direct, mode, apiKey, docsExists, docs, rag_system, components, validated, rag_pipeline, pipelines, base >>

\* rag_system.query(question) called on the orchestrator
Query ==
  /\ mode = "script"
  /\ rag_system = "ready"
  /\ \E question \in Questions :
       QueryCall("query", question, DefaultTopK, 0, 0)
  /\ ing' = IdleIng
  /\ UNCHANGED << chunker, threads, direct, mode, apiKey, docsExists, docs, rag_system, components, validated, base, expected >>

\* ------------------------------------------------------- request surface

\* the file names a client may upload
UploadNames == Files \cup {"n.txt"}

\* get_rag_system(): the module's instance, constructed when it is None; what
\* the call leaves of the orchestrator
get_rag_system ==
  IF rag_system = "none" THEN construct(apiKey)
  ELSE [raised |-> FALSE, system |-> rag_system, components |-> components,
        validated |-> validated]

\* rag = get_rag_system() in a handler
GetRagSystem ==
  /\ rag_system' = get_rag_system.system
  /\ components' = get_rag_system.components
  /\ validated' = get_rag_system.validated

\* POST /upload: the suffix check, the save into docs, then
\* rag.ingest_documents([file_path]); any exception but the 400 becomes a 500
upload_document ==
  /\ mode = "server"
  /\ \E name \in UploadNames :
       IF ~Allowed(name)
       THEN /\ call' = Call("upload", "raised", "file type", 400)
            /\ ing' = IdleIng
            /\ UNCHANGED << docs, rag_system, components, validated, vectorstore, collExists, collection, expected >>
       ELSE /\ docs' = docs \cup {name}
            /\ GetRagSystem
            /\ IF get_rag_system.raised
               THEN /\ call' = Call("upload", "raised", "config", 500)
                    /\ ing' = IdleIng
                    /\ UNCHANGED << vectorstore, collExists, collection, expected >>
               ELSE IngestCall("upload", <<name>>, docs \cup {name}, 200, 500)
  /\ qry' = IdleQry /\ resp' = NoResp
  /\ UNCHANGED << chunker, threads, direct, mode, apiKey, docsExists, rag_pipeline, pipelines, base >>

\* POST /ingest-all: rag.ingest_documents(); an exception becomes a 500, a
\* return the 200 "All documents processed successfully"
ingest_all_documents ==
  /\ mode = "server"
  /\ GetRagSystem
  /\ IF get_rag_system.raised
     THEN /\ call' = Call("ingest_all", "raised", "config", 500)
          /\ ing' = IdleIng
          /\ UNCHANGED << vectorstore, collExists, collection, expected >>
     ELSE IngestCall("ingest_all", None, docs, 200, 500)
  /\ qry' = IdleQry /\ resp' = NoResp
  /\ UNCHANGED << chunker, threads, direct, mode, apiKey, docsExists, docs, rag_pipeline, pipelines, base >>

\* the k a request carries: top_k, DefaultTopK when the client gives none
TopKs == {1, DefaultTopK}

\* POST /query: 400 when docs holds no file, else rag.query(request.question,
\* verbose=False) and the QueryResponse with the first five sources; any
\* exception but the 400 becomes a 500. request.top_k is not read.
query_documents ==
  /\ mode = "server"
  /\ GetRagSystem
  /\ \E question \in Questions, top_k \in TopKs :
       IF get_rag_system.raised
       THEN /\ call' = Call("api_query", "raised", "config", 500)
            /\ qry' = IdleQry /\ resp' = NoResp
            /\ UNCHANGED << vectorstore, collExists, collection, rag_pipeline, pipelines >>
       ELSE IF docs = {}
       THEN /\ call' = Call("api_query", "raised", "no documents", 400)
            /\ qry' = IdleQry /\ resp' = NoResp
            /\ UNCHANGED << vectorstore, collExists, collection, rag_pipeline, pipelines >>
       ELSE QueryCall("api_query", question, top_k, 200, 500)
  /\ ing' = IdleIng
  /\ UNCHANGED << chunker, threads, direct, mode, apiKey, docsExists, docs, base, expected >>

\* DELETE /documents/{filename}: 404 when the file is not in docs, else unlink
delete_document ==
  /\ mode = "server"
  /\ \E filename \in UploadNames :
       IF filename \notin docs
       THEN /\ call' = Call("delete", "raised", "not found", 404)
            /\ UNCHANGED docs
       ELSE /\ docs' = docs \ {filename}
            /\ call' = Call("delete", "ok", "", 200)
  /\ ing' = IdleIng /\ qry' = IdleQry /\ resp' = NoResp
  /\ UNCHANGED << chunker, threads, direct, mode, apiKey, docsExists, collExists, collection, rag_system, components, validated,
                  vectorstore, rag_pipeline, pipelines, base, expected >>

\* GET /documents: the allow-listed files of docs
list_documents ==
  /\ mode = "server"
  /\ call' = Call("list", "ok", "", 200)
  /\ ing' = IdleIng /\ qry' = IdleQry /\ resp' = NoResp
  /\ UNCHANGED << chunker, threads, direct, mode, apiKey, docsExists, docs, collExists, collection, rag_system, components, validated,
                  vectorstore, rag_pipeline, pipelines, base, expected >>

\* GET /status: counts the allow-listed files and calls get_rag_system()
get_status ==
  /\ mode = "server"
  /\ GetRagSystem
  /\ call' = IF get_rag_system.raised THEN Call("status", "raised", "config", 500)
                                        ELSE Call("status", "ok", "", 200)
  /\ ing' = IdleIng /\ qry' = IdleQry /\ resp' = NoResp
  /\ UNCHANGED << chunker, threads, direct, mode, apiKey, docsExists, docs, collExists, collection,
                  vectorstore, rag_pipeline, pipelines, base, expected >>

\* The user creates the docs folder (api.py does at import) and puts files in it.
MkDocs ==
  /\ mode = "script"
  /\ ~docsExists
  /\ docsExists' = TRUE
  /\ UNCHANGED << chunker, threads, direct, mode, apiKey, docs, collExists, collection, rag_system, components, validated, vectorstore,
                  rag_pipeline, pipelines, base, expected, call, ing, qry, resp >>

PutFile ==
  /\ docsExists
  /\ \E f \in Files \ docs : docs' = docs \cup {f}
  /\ UNCHANGED << chunker, threads, direct, mode, apiKey, docsExists, collExists, collection, rag_system, components, validated,
                  vectorstore, rag_pipeline, pipelines, base, expected, call, ing, qry, resp >>

\* no chunker at work outside a call
IdleChunker ==
  [chunk_size |-> CHUNK_SIZE, chunk_overlap |-> CHUNK_OVERLAP, documents |-> <<>>,
   per_document |-> <<>>]

\* the callers that may be inside ingest_documents at once
Threads == {"t1", "t2"}

\* a caller outside ingest_documents
IdleThread == [pc |-> "idle", section |-> "", chunks |-> <<>>, written |-> 0]

NoThreads == [t \in Threads |-> IdleThread]

\* no call made on the VectorStore itself yet.
\*   before: the handle when the call began; loaded: the call ran
\*   load_vectorstore itself; returned: the documents a search returned.
IdleDirect ==
  [op |-> "", before |-> "none", loaded |-> FALSE, raised |-> FALSE, returned |-> <<>>]

Init ==
  /\ mode \in {"script", "server"}
  /\ apiKey \in BOOLEAN
  /\ docsExists \in (IF mode = "server" THEN {TRUE} ELSE BOOLEAN)
  /\ docs = {}
  /\ collection \in {<<>>, Prior}
  /\ collExists = (collection # <<>>)
  /\ base = Len(collection)
  /\ rag_system = "none"
  /\ components = {}
  /\ validated = 0
  /\ vectorstore = "none"
  /\ rag_pipeline = "none"
  /\ pipelines = 0
  /\ expected = base
  /\ call = Call("start", "ok", "", 0)
  /\ ing = IdleIng
  /\ qry = IdleQry
  /\ resp = NoResp
  /\ chunker = IdleChunker
  /\ direct = IdleDirect
  /\ threads = NoThreads

Next ==
  \/ Construct
  \/ Ingest
  \/ Query
  \/ upload_document
  \/ ingest_all_documents
  \/ query_documents
  \/ delete_document
  \/ list_documents
  \/ get_status
  \/ MkDocs
  \/ PutFile

Spec == Init /\ [][Next]_vars

\* --------------------------------------------------------- the chunker

\* An orchestrator just constructed over an empty store, with `files` in docs;
\* `last` is the call that constructed it.
Constructed(m, files, last) ==
  /\ mode = m
  /\ apiKey = TRUE
  /\ docsExists = TRUE
  /\ docs = files
  /\ collection = <<>>
  /\ collExists = FALSE
  /\ base = 0
  /\ rag_system = construct(TRUE).system
  /\ components = construct(TRUE).components
  /\ validated = construct(TRUE).validated
  /\ vectorstore = "none"
  /\ rag_pipeline = "none"
  /\ pipelines = 0
  /\ expected = 0
  /\ call = last
  /\ ing = IdleIng
  /\ qry = IdleQry
  /\ resp = NoResp

\* the values CHUNK_SIZE and CHUNK_OVERLAP may be configured to
ChunkSizes == {1, PreviewLen, CHUNK_SIZE}
ChunkOverlaps == {0, 1, 2, CHUNK_OVERLAP}

\* the documents that parse, and the lists of them handed to chunk_documents
Parsed == {"a.pdf", "b.md"}
DocumentLists == UNION {[1..n -> Parsed] : n \in 0..MaxBatch}

\* A ChunkingStrategy made with some configuration, about to chunk a list of
\* documents.
InitChunk ==
  /\ Constructed("script", {}, Call("construct", "ok", "", 0))
  /\ threads = NoThreads
  /\ direct = IdleDirect
  /\ \E size \in ChunkSizes, overlap \in ChunkOverlaps, documents \in DocumentLists :
       chunker = [chunk_size |-> size, chunk_overlap |-> overlap,
                  documents |-> documents, per_document |-> <<>>]

\* one turn of the loop of chunk_documents: chunks = self.chunk_document(doc)
ChunkNext ==
  /\ Len(chunker.per_document) < Len(chunker.documents)
  /\ chunker' =
       [chunker EXCEPT !.per_document =
          Append(@, chunk_document(ChunkingStrategy(chunker.chunk_size, chunker.chunk_overlap),
                                   chunker.documents[Len(chunker.per_document) + 1]))]
  /\ UNCHANGED << program, threads, direct >>

NextChunk == ChunkNext

SpecChunk == InitChunk /\ [][NextChunk]_vars

\* ------------------------------------------------- the VectorStore alone

\* Most entries the collection holds in the runs of the VectorStore alone.
MaxStored == 4

\* k of VectorStore.similarity_search(query, k=4) and as_retriever(k=4)
DefaultK == 4

\* similarity_search: an implicit load when there is no handle, then
\* self.vectorstore.similarity_search(query, k=k)
similarity_search(s, question, k, loadOk) ==
  LET l == IF s.vs = "none" THEN load_vectorstore(s, loadOk)
                            ELSE [raised |-> FALSE, s |-> s]
      found == similarity_search_with_relevance_scores(l.s.coll, question, k)
  IN  [raised |-> l.raised, s |-> l.s, loaded |-> s.vs = "none",
       returned |-> IF l.raised THEN <<>> ELSE [r \in DOMAIN found |-> found[r].doc]]

\* the result of a call on the VectorStore becomes the state
DirectCall(op, r, returned) ==
  /\ vectorstore' = r.s.vs
  /\ collExists' = r.s.ex
  /\ collection' = r.s.coll
  /\ direct' = [op |-> op, before |-> vectorstore, loaded |-> r.loaded,
                raised |-> r.raised, returned |-> returned]
  /\ UNCHANGED << around_store, chunker, threads >>

\* A VectorStore just constructed (self.vectorstore = None) over a store
\* that holds nothing.
InitStore ==
  /\ Constructed("script", {}, Call("construct", "ok", "", 0))
  /\ chunker = IdleChunker
  /\ threads = NoThreads
  /\ direct = IdleDirect

StoreLoad ==
  \E ok \in BOOLEAN :
    \E l \in {load_vectorstore(Store, ok)} :
      DirectCall("load", [raised |-> l.raised, s |-> l.s, loaded |-> TRUE], <<>>)

StoreCreate ==
  \E f \in Parsed :
    \E out \in WriteOutcomes(Len(ChunksOf(f))) :
      /\ Len(collection) + Len(ChunksOf(f)) <= MaxStored
      /\ \E b \in {create_vectorstore(Store, ChunksOf(f), out)} :
           DirectCall("create", [raised |-> b.raised, s |-> b.s, loaded |-> FALSE], <<>>)

StoreAdd ==
  \E f \in Parsed, loadOk \in BOOLEAN :
    \E out \in WriteOutcomes(Len(ChunksOf(f))) :
      /\ Len(collection) + Len(ChunksOf(f)) <= MaxStored
      /\ \E a \in {add_documents(Store, ChunksOf(f), loadOk, out)} :
           DirectCall("add", a, <<>>)

StoreSearch ==
  \E question \in Questions, k \in {1, DefaultK}, loadOk \in BOOLEAN :
    \E r \in {similarity_search(Store, question, k, loadOk)} :
      DirectCall("search", r, r.returned)

StoreRetriever ==
  \E loadOk \in BOOLEAN :
    \E r \in {as_retriever(Store, loadOk)} :
      DirectCall("retriever", r, <<>>)

NextStore ==
  \/ StoreLoad
  \/ StoreCreate
  \/ StoreAdd
  \/ StoreSearch
  \/ StoreRetriever

SpecStore == InitStore /\ [][NextStore]_vars

\* ------------------------------------------- callers inside ingest at once

\* Nothing in DoclingRAGSystem or VectorStore takes a lock. A request handler
\* of api.py is an `async def` that never awaits, so the event loop of the one
\* server process runs it to its end before the next; callers of the
\* orchestrator itself (mode "script") are threads that interleave freely.
\*   pc: "idle" | "try" (before load_vectorstore) | "add" (before the write of
\*   add_documents) | "writing" (inside the store's write of `section`) |
\*   "except" (before create_vectorstore) | "done" | "raised".

\* no other caller is inside ingest_documents
Alone(t) ==
  \A u \in Threads \ {t} : threads[u].pc \in {"idle", "done", "raised"}

\* the orchestrator is shared and constructed, the store holds nothing
InitConc ==
  /\ \E m \in {"script", "server"} :
       Constructed(m, Parsed, Call("construct", "ok", "", 0))
  /\ chunker = IdleChunker
  /\ threads = NoThreads
  /\ direct = IdleDirect

\* ingest_documents([f]) is entered and gets as far as the try of line 90
Enter(t) ==
  /\ threads[t].pc = "idle"
  /\ mode = "server" => Alone(t)
  /\ \E f \in Parsed :
       threads' = [threads EXCEPT ![t] =
                     [pc |-> "try", section |-> "", chunks |-> chunk_documents(<<f>>),
                      written |-> 0]]
  /\ UNCHANGED << program, chunker, direct >>

\* self.vector_store.load_vectorstore()
Load(t) ==
  /\ threads[t].pc = "try"
  /\ \E ok \in BOOLEAN :
       \E l \in {load_vectorstore(Store, ok)} :
         /\ vectorstore' = l.s.vs
         /\ collExists' = l.s.ex
         /\ threads' = [threads EXCEPT ![t].pc = IF l.raised THEN "except" ELSE "add"]
  /\ UNCHANGED << around_store, collection, chunker, direct >>

\* add_documents(chunks) reaches self.vectorstore.add_documents(documents)
BeginAdd(t) ==
  /\ threads[t].pc = "add"
  /\ threads' = [threads EXCEPT ![t].pc = "writing", ![t].section = "add"]
  /\ UNCHANGED << program, chunker, direct >>

\* the except branch reaches Chroma.from_documents(...)
BeginBuild(t) ==
  /\ threads[t].pc = "except"
  /\ threads' = [threads EXCEPT ![t].pc = "writing", ![t].section = "build",
                                ![t].written = 0]
  /\ UNCHANGED << program, chunker, direct >>

\* the store writes the next document of the batch
WriteOne(t) ==
  /\ threads[t].pc = "writing"
  /\ threads[t].written < Len(threads[t].chunks)
  /\ collection' = Append(collection, threads[t].chunks[threads[t].written + 1])
  /\ collExists' = TRUE
  /\ threads' = [threads EXCEPT ![t].written = @ + 1]
  /\ UNCHANGED << around_store, vectorstore, chunker, direct >>

\* the write returns; create_vectorstore then assigns the handle
WriteReturns(t) ==
  /\ threads[t].pc = "writing"
  /\ threads[t].written = Len(threads[t].chunks)
  /\ vectorstore' = IF threads[t].section = "build" THEN "open" ELSE vectorstore
  /\ collExists' = TRUE
  /\ threads' = [threads EXCEPT ![t].pc = "done"]
  /\ UNCHANGED << around_store, collection, chunker, direct >>

\* the write raises: out of add_documents into the except branch, out of
\* create_vectorstore to the caller
WriteRaises(t) ==
  /\ threads[t].pc = "writing"
  /\ threads[t].written < Len(threads[t].chunks)
  /\ threads' = [threads EXCEPT ![t].pc = IF threads[t].section = "add" THEN "except"
                                                                       ELSE "raised"]
  /\ UNCHANGED << program, chunker, direct >>

NextConc ==
  \E t \in Threads :
    \/ Enter(t)
    \/ Load(t)
    \/ BeginAdd(t)
    \/ BeginBuild(t)
    \/ WriteOne(t)
    \/ WriteReturns(t)
    \/ WriteRaises(t)

SpecConc == InitConc /\ [][NextConc]_vars

\* ------------------------------------------------------------ properties

\* the last call was an ingest_documents call that got to the index
IngestReachedIndex == ing.ran /\ ing.reached

\* C1: in an ingest call, create_vectorstore (Index.build) is invoked if and
\* only if no collection existed before the call; when one existed the chunks
\* are appended with add_documents and build is not invoked.
C1_BuildIffNoCollection ==
  IngestReachedIndex =>
    /\ ing.built <=> ~ing.existed
    /\ ing.existed => ing.added

\* C2: after any sequence of ingest calls that all returned normally, the
\* number of stored entries is what the run found plus the sum of the chunk
\* counts of those calls: nothing skipped, merged, overwritten or written twice.
C2_StoredIsSumOfChunks ==
  expected # -1 => Len(collection) = expected

\* the last call was an ingest_documents call without file_paths whose
\* discovery yielded nothing (no docs folder, or no allow-listed file in it)
DiscoveredNothing ==
  ing.ran /\ ing.discover /\ ing.note \in {"docs folder not found", "no supported documents found"}

\* C3: an ingest call without file_paths whose discovery yields nothing fails
\* with an error its caller observes: it does not return normally, and the
\* ingest-all request does not report success.
C3_NoDocumentsFails ==
  DiscoveredNothing => (call.outcome = "raised" /\ call.http # 200)

\* C4: a parse failure on one file of a batch does not abort the batch: the
\* chunks of every other file of the batch are handed to the index and stored.
C4_ParseFailureKeepsBatch ==
  (ing.ran /\ ing.failed # "") =>
    (ing.nchunks = ing.good /\ ing.grew = ing.good)

\* the last call was a query (on the orchestrator or by request) on a
\* collection without entries, and it was not the configuration, the store or
\* the generation service that failed
QueryOnEmpty ==
  /\ call.op \in {"query", "api_query"}
  /\ call.err \notin {"config", "store", "generation"}
  /\ collection = <<>>

\* C5: a query while the collection holds no entries fails with a reported
\* 'no documents' condition, whatever files the documents folder holds: no
\* normal response, no generation request.
C5_EmptyCollectionQueryFails ==
  QueryOnEmpty =>
    /\ call.outcome = "raised" /\ call.err = "no documents"
    /\ ~resp.given
    /\ qry.requests = 0

\* C6: a query carrying top-k parameter k (10 when omitted) answers with at
\* most k sources and builds its context from at most k chunks.
C6_TopKRespected ==
  resp.given => (Len(resp.sources) <= qry.top_k /\ Len(qry.context) <= qry.top_k)

\* the sum of the relevance scores of a retrieval result
RECURSIVE SumScores(_)
SumScores(found) ==
  IF found = <<>> THEN 0 ELSE found[1].score + SumScores(Tail(found))

\* C7: in every response, metrics.average_relevance is the arithmetic mean of
\* the relevance scores retrieval returned for the query (as a fraction:
\* num/den = sum/count with den > 0), and is 0 when retrieval returned nothing.
C7_AverageIsMean ==
  resp.given =>
    LET avg == resp.metrics.average_relevance
    IN  /\ avg.den > 0
        /\ qry.retrieved = <<>> => avg.num = 0
        /\ qry.retrieved # <<>> =>
             avg.num * Len(qry.retrieved) = SumScores(qry.retrieved) * avg.den

\* a response over several results whose scores differ
C7_MeanOfSeveral ==
  /\ resp.given
  /\ Len(qry.retrieved) >= 2
  /\ \E i, j \in DOMAIN qry.retrieved : qry.retrieved[i].score # qry.retrieved[j].score
  /\ resp.metrics.average_relevance.num > 0

\* C8: every source text is the chunk text unchanged when that has at most 300
\* characters, and else exactly its first 300 characters followed by "...";
\* the answer is returned in full and metrics.answer_length is its length.
C8_PreviewAndAnswer ==
  resp.given =>
    /\ \A i \in DOMAIN resp.sources :
         LET chunk == ChunkText(resp.sources[i].metadata)
             text == resp.sources[i].text
         IN  IF Len(chunk) > 300
             THEN /\ Len(text) = 303
                  /\ \A k \in 1..300 : text[k] = chunk[k]
                  /\ \A k \in 301..303 : text[k] = 46
             ELSE text = chunk
    /\ resp.answer = qry.answer
    /\ resp.metrics.answer_length = Len(qry.answer)

\* a response with a long answer whose sources hold a chunk longer than the
\* preview, one exactly as long, and a shorter one
C8_AllLengths ==
  /\ resp.given
  /\ Len(resp.answer) > 300
  /\ \E i \in DOMAIN resp.sources : Len(ChunkText(resp.sources[i].metadata)) > 300
  /\ \E i \in DOMAIN resp.sources : Len(ChunkText(resp.sources[i].metadata)) = 300
  /\ \E i \in DOMAIN resp.sources : Len(ChunkText(resp.sources[i].metadata)) < 300

\* C9: every response a caller gets, from the orchestrator or from the query
\* request, lists one source per retrieved result in rank order, numbered by
\* position, so that metrics.retrieved_chunks is its number of sources.
C9_OneSourcePerResult ==
  resp.given =>
    /\ Len(resp.sources) = Len(qry.retrieved)
    /\ \A i \in DOMAIN resp.sources :
         /\ resp.sources[i].source_number = i
         /\ i <= Len(qry.retrieved) => resp.sources[i].metadata = qry.retrieved[i].doc
    /\ resp.metrics.retrieved_chunks = Len(resp.sources)

\* C10: in every response the relevance scores of the sources do not increase
\* with source_number, and the sources are the results of the search in the
\* order the search gave them.
C10_ScoresNonIncreasing ==
  resp.given =>
    /\ \A i, j \in DOMAIN resp.sources :
         i < j => resp.sources[i].relevance_score >= resp.sources[j].relevance_score
    /\ \A i \in DOMAIN resp.sources :
         /\ i <= Len(qry.retrieved)
         /\ resp.sources[i].metadata = qry.retrieved[i].doc
         /\ resp.sources[i].relevance_score = qry.retrieved[i].score

\* a response whose first source scores strictly higher than its last
C10_DistinctScores ==
  /\ resp.given
  /\ Len(resp.sources) >= 3
  /\ resp.sources[1].relevance_score > resp.sources[Len(resp.sources)].relevance_score

\* C11: the RAGPipeline is constructed at most once: only by a query that
\* finds none (never before the first query), every query that gets to the
\* pipeline leaves it in place and a query that finds one reuses it, and an
\* ingest call neither constructs nor resets it.
C11_PipelineOnce ==
  [][/\ pipelines' <= 1
     /\ pipelines' # pipelines =>
          /\ call'.op \in {"query", "api_query"}
          /\ rag_pipeline = "none" /\ rag_pipeline' = "built"
          /\ pipelines' = pipelines + 1
     /\ rag_pipeline = "built" => (rag_pipeline' = "built" /\ pipelines' = pipelines)
     /\ qry'.searched => rag_pipeline' = "built"
     /\ ing'.ran => (rag_pipeline' = rag_pipeline /\ pipelines' = pipelines)
     /\ (rag_pipeline' = "built") <=> (pipelines' = 1)]_vars

\* a query answered by the pipeline an earlier query constructed
C11_Reused ==
  resp.given /\ ~qry.made /\ pipelines = 1 /\ rag_pipeline = "built"

\* C12: constructing the orchestrator without the required configuration
\* fails before any component is created and leaves no instance; each
\* construction validates the configuration once, and once an instance exists
\* no call validates it again.
C12_ValidatedAtConstruction ==
  [][/\ call'.err = "config" =>
          (rag_system' = "none" /\ components' = {} /\ rag_pipeline' = "none")
     /\ rag_system' = "ready" => (components' = Components /\ validated' = 1)
     /\ rag_system = "ready" =>
          /\ rag_system' = "ready"
          /\ components' = components
          /\ validated' = validated
     /\ validated' <= 1]_vars

\* a construction that failed for its configuration
C12_ConfigFailure ==
  call.err = "config" /\ call.outcome = "raised" /\ validated = 1 /\ ~apiKey

\* C13: a query issues at most one generation request; when that request
\* fails the query fails with the error surfaced to its caller, returns no
\* response, asks no second time, and leaves the stored collection and a
\* cached RAGPipeline as they were.
C13_GenerationFailureSurfaced ==
  [][/\ qry'.requests <= 1
     /\ call'.err = "generation" =>
          /\ call'.outcome = "raised" /\ call'.http \in {0, 500}
          /\ ~resp'.given
          /\ qry'.requests = 1
          /\ collection' = collection
          /\ rag_pipeline' = "built"
          /\ rag_pipeline = "built" => pipelines' = pipelines]_vars

\* a generation failure in a query that used the cached pipeline, over a
\* collection with entries
C13_FailureWithCachedPipeline ==
  /\ call.err = "generation"
  /\ qry.ran /\ ~qry.made
  /\ collection # <<>>

\* where the text of the i-th document starts in the context, counted from 0
RECURSIVE ContextOffset(_, _)
ContextOffset(ranked, i) ==
  IF i = 1 THEN 0
  ELSE ContextOffset(ranked, i - 1) + Len(ChunkText(ranked[i - 1])) + 2

\* C14: the context of the generation request is the texts of the retrieved
\* chunks in rank order, two newlines between consecutive texts and nothing
\* before the first or after the last; a chunk retrieved several times is
\* there as many times.
C14_ContextFormat ==
  qry.requests > 0 =>
    LET ranked == qry.context
        n == Len(ranked)
        ctx == qry.prompt_context
    IN  /\ n = 0 => ctx = <<>>
        /\ n > 0 => Len(ctx) = ContextOffset(ranked, n) + Len(ChunkText(ranked[n]))
        /\ \A i \in 1..n :
             LET off == ContextOffset(ranked, i)
                 text == ChunkText(ranked[i])
             IN  /\ SubSeq(ctx, off + 1, off + Len(text)) = text
                 /\ i < n => (ctx[off + Len(text) + 1] = 10 /\ ctx[off + Len(text) + 2] = 10)

\* a context of several chunks, one of them retrieved more than once
C14_RepeatedChunk ==
  /\ qry.requests > 0
  /\ Len(qry.context) >= 3
  /\ \E i, j \in DOMAIN qry.context : i # j /\ qry.context[i] = qry.context[j]
  /\ \E i, j \in DOMAIN qry.context : qry.context[i] # qry.context[j]

\* the last n characters of a text, or all of it when it is shorter
Trailing(text, n) ==
  SubSeq(text, Len(text) - Min(n, Len(text)) + 1, Len(text))

\* C15: the chunker honours the configured bounds: every chunk text is
\* non-empty, each chunk after the first of a document begins with the
\* trailing CHUNK_OVERLAP content of the chunk before it, and so a configured
\* overlap gives other chunks than no overlap.
C15_ChunkerHonoursOverlap ==
  \A d \in DOMAIN chunker.per_document :
    LET chunks == chunker.per_document[d]
    IN  /\ \A k \in DOMAIN chunks : ChunkText(chunks[k]) # <<>>
        /\ \A k \in 2..Len(chunks) :
             LET before == Trailing(ChunkText(chunks[k - 1]), chunker.chunk_overlap)
             IN  SubSeq(ChunkText(chunks[k]), 1, Len(before)) = before
        /\ (chunker.chunk_overlap > 0 /\ Len(chunks) >= 2) =>
             chunks # chunk_document(ChunkingStrategy(chunker.chunk_size, 0),
                                     chunker.documents[d])

\* C16: create_vectorstore called on a handle that is already open is rejected
\* with an error: it never returns normally, it succeeds only on a handle
\* that is not open.
C16_BuildOnOpenRejected ==
  (ing.ran /\ ing.built /\ ing.built_open) => call.outcome = "raised"

\* C17: add_documents, similarity_search and as_retriever called on a
\* VectorStore without a handle load first (exactly then), and when they do
\* not raise the handle is open afterwards; a handle that is open never goes
\* back to none.
C17_ImplicitLoad ==
  [][/\ vectorstore = "open" => vectorstore' = "open"
     /\ direct'.op \in {"add", "search", "retriever"} =>
          /\ direct'.loaded <=> vectorstore = "none"
          /\ ~direct'.raised => vectorstore' = "open"
          /\ (direct'.loaded /\ ~direct'.raised) => collExists']_vars

\* add_documents on a VectorStore without a handle loaded and then wrote
C17_AddLoadedFirst ==
  /\ direct.op = "add" /\ direct.before = "none"
  /\ direct.loaded /\ ~direct.raised
  /\ vectorstore = "open" /\ collection # <<>>

\* C18: the writes of two ingest calls on the same collection never overlap:
\* no two callers are inside the store's write of add_documents or
\* create_vectorstore at once.
C18_WritesNeverOverlap ==
  \A t, u \in Threads :
    (threads[t].pc = "writing" /\ threads[u].pc = "writing") => t = u

\* one sequence is the beginning of the other
IsPrefix(a, b) == Len(a) <= Len(b) /\ SubSeq(b, 1, Len(a)) = a

\* C19: no call removes or changes a stored entry: the collection after any
\* step begins with the collection before it, and delete_document leaves it
\* as it is, so the chunks of a deleted file stay stored and are still
\* returned as sources.
C19_EntriesOnlyGrow ==
  [][/\ IsPrefix(collection, collection')
     /\ call'.op \in {"delete", "list", "status", "query", "api_query"} =>
          collection' = collection]_vars

\* a query answered with a chunk of "a.pdf" as a source after the file, which
\* this run uploaded, was deleted
C19_SourceOfDeletedFile ==
  /\ mode = "server" /\ base = 0
  /\ "a.pdf" \notin docs
  /\ resp.given
  /\ \E i \in DOMAIN resp.sources : resp.sources[i].metadata = "c1"

\* C20: one ingest call stores each chunk of its batch at most once, also when
\* add_documents fails part-way: the call never appends more entries than
\* its batch has chunks.
C20_EachChunkAtMostOnce ==
  IngestReachedIndex => ing.grew <= ing.nchunks

\* the chunks the sources of the last response name, in their order
SourceChunks == [i \in DOMAIN resp.sources |-> resp.sources[i].metadata]

\* C21: the sources of every response are exactly, and in the same order, the
\* chunks whose texts formed the context of the generation request that
\* produced the answer.
C21_SourcesAreContext ==
  resp.given => SourceChunks = qry.context

\* C22: an upload request that does not succeed (400 for a suffix that is not
\* allow-listed, 500 when processing or ingestion fails) leaves no new file in
\* docs and no new entry in the collection.
C22_FailedUploadLeavesNothing ==
  [][(call'.op = "upload" /\ (call'.http = 400 \/ (call'.http = 500 /\ ing'.ran))) =>
       (docs' = docs /\ collection' = collection)]_vars

====
